---------------------------- MODULE Spec2Model ----------------------------
(***************************************************************************)
(* A model of two passes over the low-level statement IR:                  *)
(*   - InjectVirtualThread  (inject_virtual_thread.cc): ExprTouched,       *)
(*     VarTouchedAnalysis, VTInjector, VirtualThreadInjector               *)
(*   - InstrumentBoundCheckers (bounds_checker.cc): BoundCollector,        *)
(*     BoundChecker                                                        *)
(* IR nodes are records tagged by the field k.  A visitor is a recursive   *)
(* operator that threads the visitor object's fields through the walk.     *)
(***************************************************************************)
EXTENDS Integers, Sequences, FiniteSets, TLC

(***************************************************************************)
(* Bounds of the model.                                                    *)
(***************************************************************************)
\* largest lane count of an allocation dtype / a Ramp index
MaxLanes == 2
\* largest number of dimensions of an Allocate
MaxDims == 3

(***************************************************************************)
(* IR constructors.                                                        *)
(***************************************************************************)
Undef == [k |-> "Undef"]
Const(t, v) == [k |-> "IntImm", t |-> t, v |-> v]
IntImm(v) == Const("int32", v)
StringImm(s) == [k |-> "StringImm", s |-> s]
Var(n) == [k |-> "Variable", name |-> n]
Load(buf, index, pred) == [k |-> "Load", buf |-> buf, index |-> index, pred |-> pred]
Ramp(base, stride, lanes) == [k |-> "Ramp", base |-> base, stride |-> stride, lanes |-> lanes]
Call(name, args) == [k |-> "Call", name |-> name, args |-> args]
Bin(op, a, b) == [k |-> op, a |-> a, b |-> b]
Cast(t, a) == [k |-> "Cast", t |-> t, a |-> a]
BinOps == {"Add", "Mul", "Div", "GE", "LT", "And", "EQ"}

Store(buf, value, index, pred) ==
  [k |-> "Store", buf |-> buf, value |-> value, index |-> index, pred |-> pred]
LetStmt(var, value, body) == [k |-> "LetStmt", var |-> var, value |-> value, body |-> body]
AttrStmt(node, key, value, body) ==
  [k |-> "AttrStmt", node |-> node, key |-> key, value |-> value, body |-> body]
For(loop_var, min, extent, body) ==
  [k |-> "For", loop_var |-> loop_var, min |-> min, extent |-> extent, body |-> body]
IfThenElse(cond, then_case, else_case) ==
  [k |-> "IfThenElse", cond |-> cond, then_case |-> then_case, else_case |-> else_case]
Block(first, rest) == [k |-> "Block", first |-> first, rest |-> rest]
Evaluate(value) == [k |-> "Evaluate", value |-> value]
Allocate(buf, lanes, extents, cond, body, new_expr) ==
  [k |-> "Allocate", buf |-> buf, lanes |-> lanes, extents |-> extents,
   cond |-> cond, body |-> body, new_expr |-> new_expr]
AssertStmt(cond, msg, body) == [k |-> "AssertStmt", cond |-> cond, msg |-> msg, body |-> body]

\* const_true(): the predicate of an unmasked Load or Store
TruePred == Const("uint1", 1)

\* Expr::defined()
Defined(e) == e.k # "Undef"

\* e.dtype().lanes(): a Ramp is a vector of its lanes, arithmetic takes the
\* lanes of its operands, every other expression of the model is scalar
RECURSIVE DtypeLanes(_)
DtypeLanes(e) ==
  CASE e.k = "Ramp" -> e.lanes
    [] e.k \in BinOps -> DtypeLanes(e.a)
    [] OTHER -> 1

\* is_negative_const(e)
is_negative_const(e) == e.k = "IntImm" /\ e.v < 0

\* ir::Simplify(e): the external simplifier; it returns some expression of the
\* same value, which the model keeps as an uninterpreted application
Simplify(e) == [k |-> "Simplify", a |-> e]


(***************************************************************************)
(* State.                                                                  *)
(***************************************************************************)
VARIABLES
  pc,            \* where the pass driver stands
  stmt,          \* the statement handed to the pass
  mem_to_shape,  \* BoundCollector::mem_to_shape
  checker,       \* the BoundChecker object (its fields, and what it did)
  result,        \* the statement the pass returns
  thread,        \* the virtual_thread attribute: var, num_threads, allow_share
  touched_var,   \* VarTouchedAnalysis::touched_var_
  affect,        \* VarTouchedAnalysis::affect_
  pending,       \* the worklist of TouchedVar
  inserted,      \* how many times each variable was inserted into touched_var_
  injector       \* the VTInjector object (its fields, and what it did)

vars == <<pc, stmt, mem_to_shape, checker, result,
          thread, touched_var, affect, pending, inserted, injector>>
bcvars == <<mem_to_shape, checker>>
vtvars == <<thread, touched_var, affect, pending, inserted, injector>>

(***************************************************************************)
(* bounds_checker.cc                                                       *)
(***************************************************************************)
\* the buffer variables of the bound checker's inputs
BCBuffers == {"A", "B", "C"}
NoShape == [b \in BCBuffers |-> Undef]

\* mem_to_shape[key] = value
PutShape(m, key, value) == [m EXCEPT ![key] = value]

\* BoundCollector: VisitStmt_(const AttrStmt*) and the default statement walk
RECURSIVE BoundCollector(_, _)
BoundCollector(s, m) ==
  CASE s.k = "AttrStmt" ->
         LET m1 == IF s.key = "buffer_bound" /\ s.node.k = "Variable"
                   THEN PutShape(m, s.node.name, s.value) ELSE m
         IN BoundCollector(s.body, m1)
    [] s.k \in {"LetStmt", "For", "Allocate", "AssertStmt"} -> BoundCollector(s.body, m)
    [] s.k = "IfThenElse" ->
         LET m1 == BoundCollector(s.then_case, m)
         IN IF Defined(s.else_case) THEN BoundCollector(s.else_case, m1) ELSE m1
    [] s.k = "Block" -> BoundCollector(s.rest, BoundCollector(s.first, m))
    [] OTHER -> m

\* BoundChecker(mem_to_shape): the fields, and the history of what the
\* checker did at each Store and each Allocate (stores, allocs)
\* err is "ok" until a step of the pass fails; undefined_read is what the
\* build makes of a read through an undefined extent (see SanityCheck)
NewBoundChecker(m) ==
  [mem_to_shape |-> m, collector |-> <<>>, process_store |-> FALSE,
   unsafe_rewritten |-> FALSE, stores |-> <<>>, allocs |-> <<>>,
   err |-> "ok", undefined_read |-> "fault"]

\* new_shape[i].dtype() on an undefined new_shape[i] reads through a null
\* node: the read faults, or it yields some type, scalar or not
UndefinedReads == {"fault", "scalar", "not scalar"}

error_message == "OUT OF THE BOUNDS"

UpdateIsNeeded(buffer_var, st) == Defined(st.mem_to_shape[buffer_var])

\* The sanity check of Update, position by position from i on: every turn
\* tests new_shape[0].defined(), then new_shape[i].dtype().is_scalar(), then
\* is_negative_const(new_shape[i])
RECURSIVE SanityCheck(_, _, _)
SanityCheck(new_shape, i, undefined_read) ==
  IF i > Len(new_shape) THEN "accepted"
  ELSE IF ~Defined(new_shape[1]) THEN "rejected"
  ELSE IF ~Defined(new_shape[i])
       THEN CASE undefined_read = "fault" -> "fault"
              [] undefined_read = "not scalar" -> "rejected"
              [] OTHER -> SanityCheck(new_shape, i + 1, undefined_read)
  ELSE IF DtypeLanes(new_shape[i]) # 1 \/ is_negative_const(new_shape[i]) THEN "rejected"
  ELSE SanityCheck(new_shape, i + 1, undefined_read)

\* TRUE when the shape is rejected
ShapeRejected(new_shape, undefined_read) ==
  \/ Len(new_shape) = 0
  \/ SanityCheck(new_shape, 1, undefined_read) = "rejected"

\* one factor of the scalarized shape
ShapeFactor(lanes, extent) == Bin("Mul", Const("uint64", lanes), Cast("uint64", extent))

RECURSIVE ScalarizeLanesOnce(_, _, _)
ScalarizeLanesOnce(new_shape, lanes, i) ==
  IF i = 1 THEN ShapeFactor(lanes, new_shape[1])
  ELSE Bin("Mul", ScalarizeLanesOnce(new_shape, lanes, i - 1), Cast("uint64", new_shape[i]))
\* "Scalarize the shape": the product of the first i factors
RECURSIVE Scalarize(_, _, _)
Scalarize(new_shape, lanes, i) ==
  IF i = 1 THEN ShapeFactor(lanes, new_shape[1])
  ELSE Bin("Mul", Scalarize(new_shape, lanes, i - 1), ShapeFactor(lanes, new_shape[i]))

\* Cast::make checks that its value is defined
CastMakeFails(new_shape) == \E i \in 1..Len(new_shape) : ~Defined(new_shape[i])

Update(buffer_var, new_shape, lanes, st) ==
  IF ShapeRejected(new_shape, st.undefined_read) THEN st
  ELSE IF SanityCheck(new_shape, 1, st.undefined_read) = "fault"
       THEN [st EXCEPT !.err = "new_shape[i].dtype()"]
  ELSE IF CastMakeFails(new_shape)
       THEN [st EXCEPT !.err = "value.defined()"]
  ELSE [st EXCEPT !.mem_to_shape =
          PutShape(@, buffer_var, Scalarize(new_shape, lanes, Len(new_shape)))]

IndexIsValid(index) ==
  IF ~Defined(index) THEN FALSE
  ELSE IF index.k = "Ramp"
       THEN /\ Defined(index.base) /\ DtypeLanes(index.base) = 1
            /\ Defined(index.stride) /\ DtypeLanes(index.stride) = 1
            /\ index.lanes > 0
       ELSE TRUE

CanInstrument(index, buffer_var, st) ==
  /\ Defined(st.mem_to_shape[buffer_var])
  /\ IndexIsValid(index)
  /\ ~st.unsafe_rewritten

Collect(index, buffer_var, st) ==
  [st EXCEPT !.collector =
     Append(@, [index |-> index, bound |-> st.mem_to_shape[buffer_var]])]

\* the index MakeCondition checks: the last lane of a Ramp
BoundIndex(index) ==
  IF index.k = "Ramp"
  THEN Bin("Add", index.base,
           Bin("Mul", index.stride, IntImm(index.lanes - 1)))
  ELSE index

\* current_condition of MakeCondition
RangeCheck(index, upper_bound) ==
  LET idx == Cast("int64", Simplify(BoundIndex(index)))
      ub  == Cast("int64", Simplify(upper_bound))
  IN Bin("And", Bin("GE", idx, Const("int64", 0)), Bin("LT", idx, ub))

\* MakeCondition over the first i pairs of the collector
RECURSIVE MakeConditionUpTo(_, _)
MakeConditionUpTo(collector, i) ==
  IF i = 0 THEN Undef
  ELSE LET cur == RangeCheck(collector[i].index, collector[i].bound)
       IN IF i = 1 THEN cur
          ELSE Bin("And", MakeConditionUpTo(collector, i - 1), cur)

MakeCondition(st) == MakeConditionUpTo(st.collector, Len(st.collector))

\* BoundChecker's expression walk: VisitExpr_(const Load*), VisitExpr_(const
\* Call*) and the default walk of the children in source order.  The checker
\* rewrites no expression, so the walk returns the checker alone.
RECURSIVE BCVisitExpr(_, _), BCVisitExprs(_, _, _)
BCVisitExpr(e, st) ==
  CASE e.k = "Load" ->
         LET st1 == IF CanInstrument(e.index, e.buf, st)
                    THEN Collect(e.index, e.buf, st) ELSE st
         IN BCVisitExpr(e.pred, BCVisitExpr(e.index, st1))
    [] e.k = "Call" ->
         LET st1 == IF st.process_store /\ e.name = "tvm_if_then_else"
                    THEN [st EXCEPT !.unsafe_rewritten = TRUE] ELSE st
         IN BCVisitExprs(e.args, 1, st1)
    [] e.k \in BinOps -> BCVisitExpr(e.b, BCVisitExpr(e.a, st))
    [] e.k = "Ramp" -> BCVisitExpr(e.stride, BCVisitExpr(e.base, st))
    [] e.k = "Cast" -> BCVisitExpr(e.a, st)
    [] OTHER -> st
BCVisitExprs(es, i, st) ==
  IF i > Len(es) THEN st ELSE BCVisitExprs(es, i + 1, BCVisitExpr(es[i], st))

\* the body built for a store whose collector is not empty
WrapStoreNoPredicate(op, condition) ==
  IfThenElse(condition,
             Store(op.buf, op.value, op.index, TruePred),
             AssertStmt(condition, StringImm(error_message), Evaluate(IntImm(1))))
WrapStore(op, condition) ==
  IfThenElse(condition,
             Store(op.buf, op.value, op.index, op.pred),
             AssertStmt(condition, StringImm(error_message), Evaluate(IntImm(1))))

\* VisitStmt_(const Store*) up to the recursion: the scratch fields are reset
StoreEnterKeep(st) == [st EXCEPT !.process_store = TRUE, !.unsafe_rewritten = FALSE]
StoreEnter(st) ==
  [st EXCEPT !.collector = <<>>, !.process_store = TRUE, !.unsafe_rewritten = FALSE]

\* VisitStmt_(const Store*)
BCVisitStore(op, st) ==
  LET st1 == BCVisitExpr(op.pred, BCVisitExpr(op.index, BCVisitExpr(op.value, StoreEnter(st))))
      st2 == [st1 EXCEPT !.process_store = FALSE]
      st3 == IF CanInstrument(op.index, op.buf, st2)
             THEN Collect(op.index, op.buf, st2) ELSE st2
      condition == MakeCondition(st3)
      out == IF Len(st3.collector) > 0 /\ condition.k # "StringImm"
             THEN WrapStore(op, condition) ELSE op
  IN [s  |-> out,
      st |-> [st3 EXCEPT !.stores =
                Append(@, [op |-> op, shapes |-> st.mem_to_shape, out |-> out,
                           collector |-> st3.collector,
                           unsafe_rewritten |-> st3.unsafe_rewritten])]]

\* BoundChecker's statement walk: VisitStmt_(const Allocate*), VisitStmt_(const
\* Store*) and the default mutation of the other statements
RECURSIVE BCVisitStmt(_, _)
BCVisitStmt(s, st) ==
  CASE st.err # "ok" -> [s |-> s, st |-> st]
    [] s.k = "Store" -> BCVisitStore(s, st)
    [] s.k = "Allocate" ->
         LET st1 == IF UpdateIsNeeded(s.buf, st)
                    THEN Update(s.buf, s.extents, s.lanes, st) ELSE st
             st2 == [st1 EXCEPT !.allocs =
                       Append(@, [op |-> [s EXCEPT !.body = Undef],
                                  before |-> st.mem_to_shape,
                                  after |-> st1.mem_to_shape,
                                  at |-> Len(st.stores)])]
             st3 == BCVisitExprs(s.extents, 1, st2)
             b   == BCVisitStmt(s.body, st3)
             st4 == BCVisitExpr(s.cond, b.st)
             st5 == IF Defined(s.new_expr) THEN BCVisitExpr(s.new_expr, st4) ELSE st4
         IN IF st1.err # "ok" THEN [s |-> s, st |-> st2]
            ELSE [s |-> [s EXCEPT !.body = b.s], st |-> st5]
    [] s.k \in {"AttrStmt", "LetStmt"} ->
         LET b == BCVisitStmt(s.body, BCVisitExpr(s.value, st))
         IN [s |-> [s EXCEPT !.body = b.s], st |-> b.st]
    [] s.k = "For" ->
         LET b == BCVisitStmt(s.body, BCVisitExpr(s.extent, BCVisitExpr(s.min, st)))
         IN [s |-> [s EXCEPT !.body = b.s], st |-> b.st]
    [] s.k = "IfThenElse" ->
         LET t == BCVisitStmt(s.then_case, BCVisitExpr(s.cond, st))
             e == IF Defined(s.else_case) THEN BCVisitStmt(s.else_case, t.st)
                  ELSE [s |-> s.else_case, st |-> t.st]
         IN [s |-> [s EXCEPT !.then_case = t.s, !.else_case = e.s], st |-> e.st]
    [] s.k = "Block" ->
         LET f == BCVisitStmt(s.first, st)
             r == BCVisitStmt(s.rest, f.st)
         IN [s |-> [s EXCEPT !.first = f.s, !.rest = r.s], st |-> r.st]
    [] s.k = "Evaluate" -> [s |-> s, st |-> BCVisitExpr(s.value, st)]
    [] OTHER -> [s |-> s, st |-> st]


(***************************************************************************)
(* The statements handed to InstrumentBoundCheckers.                       *)
(***************************************************************************)
\* the sequences over S of length at most n
RECURSIVE SeqsUpTo(_, _)
SeqsUpTo(S, n) ==
  IF n = 0 THEN {<<>>}
  ELSE LET shorter == SeqsUpTo(S, n - 1)
       IN shorter \cup {Append(q, x) : q \in shorter, x \in S}

BCIndices == {Var("i")} \cup {Ramp(Var("i"), IntImm(2), l) : l \in 2..MaxLanes}
tvm_if_then_else(c, a, b) == Call("tvm_if_then_else", <<c, a, b>>)
BCOperands ==
  { IntImm(0),
    Load("A", Var("i"), TruePred),
    Load("B", Var("j"), TruePred),
    Load("A", Load("B", Var("j"), TruePred), TruePred),
    tvm_if_then_else(Var("c"), IntImm(0), IntImm(1)),
    tvm_if_then_else(Var("c"), Load("A", Var("i"), TruePred), IntImm(1)) }
BCValues == BCOperands \cup {Bin("Add", x, y) : x, y \in BCOperands}
BCPredicates == {TruePred, Bin("LT", Load("B", Var("p"), TruePred), IntImm(1))}
BCStores ==
  {Store(b, v, x, p) : b \in BCBuffers, v \in BCValues, x \in BCIndices, p \in BCPredicates}
\* the stores put after or inside another statement
BCSideStores ==
  { Store("A", IntImm(0), Var("i"), TruePred),
    Store("B", Load("A", Var("i"), TruePred), Var("j"), TruePred),
    Store("C", Load("B", Var("j"), TruePred), Var("i"), TruePred),
    Store("A", tvm_if_then_else(Var("c"), IntImm(0), IntImm(1)), Var("i"), TruePred) }

MaxInt32 == 2147483647
BCExtents ==
  {IntImm(4), IntImm(MaxInt32), IntImm(-1), Var("n"), Undef, Ramp(IntImm(0), IntImm(1), 2)}
\* B is redeclared: it has a declared shape under the second form of input only
BCAllocates(body) ==
  {Allocate("B", l, ex, TruePred, body, Undef) :
     l \in 1..MaxLanes, ex \in SeqsUpTo(BCExtents, MaxDims)}

BCBodies ==
  BCStores
  \cup {Block(t, s) : t \in BCSideStores, s \in BCStores}
  \cup {LetStmt("x", Load("A", Var("i"), TruePred), s) : s \in BCStores}
  \cup {IfThenElse(Bin("LT", Load("A", Var("i"), TruePred), IntImm(1)), s, Undef) : s \in BCStores}
  \cup {Block(Evaluate(Load("B", Var("j"), TruePred)), s) : s \in BCStores}
  \cup UNION {BCAllocates(s) : s \in BCSideStores}
  \cup UNION {{Block(a, s) : a \in BCAllocates(Store("B", IntImm(0), Var("j"), TruePred))} :
                s \in BCSideStores}

\* buffer_bound attributes: A alone, or A and B; C never has a declared shape
BCInputs ==
  {AttrStmt(Var("A"), "buffer_bound", IntImm(128), b) : b \in BCBodies}
  \cup {AttrStmt(Var("A"), "buffer_bound", IntImm(128),
                 AttrStmt(Var("B"), "buffer_bound", Var("m"), b)) : b \in BCBodies}

(***************************************************************************)
(* InstrumentBoundCheckers as a state machine.                             *)
(***************************************************************************)
BCInit ==
  /\ pc = "collect"
  /\ stmt \in BCInputs
  /\ mem_to_shape = NoShape
  /\ checker = NewBoundChecker(NoShape)
  /\ result = Undef
  /\ thread = Undef /\ touched_var = {} /\ affect = Undef
  /\ pending = <<>> /\ inserted = Undef /\ injector = Undef

\* bound_collector(stmt)
BoundCollect ==
  /\ pc = "collect"
  /\ mem_to_shape' = BoundCollector(stmt, NoShape)
  /\ pc' = "check"
  /\ UNCHANGED <<stmt, checker, result, vtvars>>

\* what BoundCheck leaves behind
BoundCheckReturn(r) ==
  /\ checker' = r.st
  /\ result' = IF r.st.err = "ok" THEN r.s ELSE Undef
  /\ pc' = IF r.st.err = "ok" THEN "done" ELSE "aborted"

\* BoundChecker(bound_collector.mem_to_shape)(stmt)
BoundCheck ==
  /\ pc = "check"
  /\ \E u \in UndefinedReads :
       BoundCheckReturn(BCVisitStmt(stmt,
         [NewBoundChecker(mem_to_shape) EXCEPT !.undefined_read = u]))
  /\ UNCHANGED <<stmt, mem_to_shape, vtvars>>

BCNext == BoundCollect \/ BoundCheck
SpecBC == BCInit /\ [][BCNext]_vars


(***************************************************************************)
(* inject_virtual_thread.cc: ExprTouched and VarTouchedAnalysis            *)
(***************************************************************************)
\* the variables (scalars and buffers alike) of the virtual-thread inputs
VTNames == {"vt", "a", "b", "c", "A", "B", "x", "i", "n"}

NewExprTouched == [expr_touched |-> FALSE, used_vars |-> <<>>, write_vars |-> <<>>]

HandleUseVar(var, tc, touched) ==
  LET t1 == IF var \in touched THEN [tc EXCEPT !.expr_touched = TRUE] ELSE tc
  IN IF ~t1.expr_touched THEN [t1 EXCEPT !.used_vars = Append(@, var)] ELSE t1

HandleWriteVar(var, tc) == [tc EXCEPT !.write_vars = Append(@, var)]

\* ExprTouched::VisitExpr with the VisitExpr_ overloads and the default walk
RECURSIVE ExprTouched(_, _, _, _), ExprTouchedArgs(_, _, _, _, _)
ExprTouched(e, tc, touched, check_write) ==
  IF tc.expr_touched /\ ~check_write THEN tc
  ELSE CASE e.k = "Load" ->
              ExprTouched(e.pred,
                ExprTouched(e.index, HandleUseVar(e.buf, tc, touched), touched, check_write),
                touched, check_write)
         [] e.k = "Variable" -> HandleUseVar(e.name, tc, touched)
         [] e.k = "Call" ->
              IF e.name = "tvm_access_ptr"
              THEN LET rw_mask == e.args[5].v
                       buffer_var == e.args[2].name
                       t1 == IF rw_mask % 2 = 1 THEN HandleUseVar(buffer_var, tc, touched) ELSE tc
                       t2 == IF (rw_mask \div 2) % 2 = 1 THEN HandleWriteVar(buffer_var, t1) ELSE t1
                   IN ExprTouched(e.args[3], t2, touched, check_write)
              ELSE ExprTouchedArgs(e.args, 1, tc, touched, check_write)
         [] e.k \in BinOps ->
              ExprTouched(e.b, ExprTouched(e.a, tc, touched, check_write), touched, check_write)
         [] e.k = "Ramp" ->
              ExprTouched(e.stride, ExprTouched(e.base, tc, touched, check_write),
                          touched, check_write)
         [] e.k = "Cast" -> ExprTouched(e.a, tc, touched, check_write)
         [] OTHER -> tc
ExprTouchedArgs(es, i, tc, touched, check_write) ==
  IF i > Len(es) THEN tc
  ELSE ExprTouchedArgs(es, i + 1, ExprTouched(es[i], tc, touched, check_write),
                       touched, check_write)

\* VarTouchedAnalysis: the fields, and the count of insertions
NewVarTouchedAnalysis ==
  [touched_var |-> {}, affect |-> [r \in VTNames |-> <<>>], inserted |-> [r \in VTNames |-> 0]]

\* touched_var_.insert(var)
InsertTouched(va, var) ==
  [va EXCEPT !.touched_var = @ \cup {var}, !.inserted[var] = @ + 1]

\* affect_[r].push_back(var) for the used variables i.. of the list
RECURSIVE PushAffect(_, _, _, _)
PushAffect(aff, used_vars, i, var) ==
  IF i > Len(used_vars) THEN aff
  ELSE LET r == used_vars[i]
       IN PushAffect(IF r # var THEN [aff EXCEPT ![r] = Append(@, var)] ELSE aff,
                     used_vars, i + 1, var)

RecordNoAffect(var, tc, va) ==
  IF var \in va.touched_var THEN va
  ELSE IF tc.expr_touched THEN InsertTouched(va, var) ELSE va
Record(var, tc, va) ==
  IF var \in va.touched_var THEN va
  ELSE IF tc.expr_touched THEN InsertTouched(va, var)
       ELSE [va EXCEPT !.affect = PushAffect(@, tc.used_vars, 1, var)]

\* Record(var, tc) for every var of write_vars_
RECURSIVE RecordWrites(_, _, _, _)
RecordWrites(write_vars, i, tc, va) ==
  IF i > Len(write_vars) THEN va
  ELSE RecordWrites(write_vars, i + 1, tc, Record(write_vars[i], tc, va))

\* VarTouchedAnalysis::VisitStmt_ and the default statement walk
RECURSIVE VarTouchedAnalysis(_, _)
VarTouchedAnalysis(s, va) ==
  CASE s.k = "LetStmt" ->
         LET tc == ExprTouched(s.value, NewExprTouched, va.touched_var, FALSE)
         IN VarTouchedAnalysis(s.body, Record(s.var, tc, va))
    [] s.k = "Store" ->
         LET t1 == ExprTouched(s.value, NewExprTouched, va.touched_var, FALSE)
             tc == ExprTouched(s.index, t1, va.touched_var, FALSE)
         IN Record(s.buf, tc, va)
    [] s.k = "For" ->
         LET t1 == ExprTouched(s.min, NewExprTouched, va.touched_var, FALSE)
             tc == ExprTouched(s.extent, t1, va.touched_var, FALSE)
         IN VarTouchedAnalysis(s.body, Record(s.loop_var, tc, va))
    [] s.k = "Evaluate" ->
         LET tc == ExprTouched(s.value, NewExprTouched, va.touched_var, TRUE)
         IN RecordWrites(tc.write_vars, 1, tc, va)
    [] s.k = "Allocate" ->
         LET t1 == ExprTouchedArgs(s.extents, 1, NewExprTouched, va.touched_var, FALSE)
             t2 == ExprTouched(s.cond, t1, va.touched_var, FALSE)
             tc == IF Defined(s.new_expr)
                   THEN ExprTouched(s.new_expr, t2, va.touched_var, FALSE) ELSE t2
         IN VarTouchedAnalysis(s.body, Record(s.buf, tc, va))
    [] s.k \in {"AttrStmt", "AssertStmt"} -> VarTouchedAnalysis(s.body, va)
    [] s.k = "IfThenElse" ->
         LET v1 == VarTouchedAnalysis(s.then_case, va)
         IN IF Defined(s.else_case) THEN VarTouchedAnalysis(s.else_case, v1) ELSE v1
    [] s.k = "Block" -> VarTouchedAnalysis(s.rest, VarTouchedAnalysis(s.first, va))
    [] OTHER -> va

\* the orders in which a set can be copied into a vector
Orders(S) == {q \in [1..Cardinality(S) -> S] : \A x \in S : \E j \in DOMAIN q : q[j] = x}

\* TouchedVar up to the worklist: touched_var_.insert(var), VisitStmt(stmt),
\* pending(touched_var_.begin(), touched_var_.end()) in the order of the set
TouchedVarWalk ==
  /\ pc = "touch"
  /\ LET va == VarTouchedAnalysis(stmt, InsertTouched(NewVarTouchedAnalysis, thread.var))
     IN /\ touched_var' = va.touched_var
        /\ affect' = va.affect
        /\ inserted' = va.inserted
        /\ pending' \in Orders(va.touched_var)
  /\ pc' = "propagate"
  /\ UNCHANGED <<stmt, result, thread, injector, bcvars>>

\* the for loop over affect_[v]: the variables not touched yet are inserted
\* and pushed
RECURSIVE PushAffected(_, _, _)
PushAffected(rs, i, w) ==
  IF i > Len(rs) THEN w
  ELSE LET r == rs[i]
       IN PushAffected(rs, i + 1,
            IF r \notin w.touched_var
            THEN [w EXCEPT !.touched_var = @ \cup {r}, !.inserted[r] = @ + 1,
                           !.pending = Append(@, r)]
            ELSE w)

\* one turn of the while loop of TouchedVar: pop the back of pending, push
\* what it affects
WhileTurn(w) ==
  LET v == w.pending[Len(w.pending)]
  IN PushAffected(affect[v], 1,
       [w EXCEPT !.pending = SubSeq(w.pending, 1, Len(w.pending) - 1)])

TouchedVarStep ==
  /\ pc = "propagate"
  /\ pending # <<>>
  /\ LET w == WhileTurn([touched_var |-> touched_var, inserted |-> inserted,
                         pending |-> pending])
     IN /\ touched_var' = w.touched_var
        /\ inserted' = w.inserted
        /\ pending' = w.pending
  /\ UNCHANGED <<pc, stmt, result, thread, affect, injector, bcvars>>

\* return std::move(touched_var_)
TouchedVarReturn ==
  /\ pc = "propagate"
  /\ pending = <<>>
  /\ pc' = "inject"
  /\ UNCHANGED <<stmt, result, vtvars, bcvars>>

(***************************************************************************)
(* The statements handed to the touch analysis: chains of definitions of   *)
(* a (a buffer that is stored to), b (a let or loop variable) and c (a     *)
(* buffer that is allocated, or written through tvm_access_ptr), each      *)
(* reading vt or another of them, in every order.                          *)
(***************************************************************************)
\* longest chain of definitions
MaxDefs == 3

tvm_access_ptr(lanes, buffer, offset, extent, rw_mask) ==
  Call("tvm_access_ptr",
       <<Call("type_annotation", <<IntImm(lanes)>>), Var(buffer), offset, extent,
         IntImm(rw_mask)>>)

\* an expression that reads y
ReadOf(y) ==
  CASE y = "a" -> Load("a", IntImm(0), TruePred)
    [] y = "c" -> tvm_access_ptr(1, "c", IntImm(0), IntImm(1), 1)
    [] OTHER -> Var(y)

TouchDefs(rest) ==
  {Block(Store("a", ReadOf(y), IntImm(0), TruePred), rest) : y \in {"vt", "b", "c"}}
  \cup {Block(Store("a", IntImm(1), ReadOf("b"), TruePred), rest)}
  \cup {Block(Store("a", tvm_access_ptr(1, "c", IntImm(0), Var("vt"), 1), IntImm(0), TruePred),
              rest)}
  \cup {LetStmt("b", ReadOf(y), rest) : y \in {"vt", "a", "c"}}
  \cup {For("b", IntImm(0), ReadOf("a"), rest)}
  \cup {Block(Evaluate(Call("f", <<tvm_access_ptr(1, "c", ReadOf("vt"), IntImm(1), 2)>>)), rest)}
  \cup {Block(Evaluate(Call("f", <<ReadOf(y), tvm_access_ptr(1, "c", IntImm(0), IntImm(1), 3)>>)),
              rest) : y \in {"a", "b"}}
  \cup {Allocate("c", 1, <<ReadOf("b")>>, TruePred, rest, Undef)}

RECURSIVE TouchChains(_)
TouchChains(n) ==
  IF n = 0 THEN {Evaluate(IntImm(0))}
  ELSE LET shorter == TouchChains(n - 1)
       IN shorter \cup UNION {TouchDefs(rest) : rest \in shorter}

TouchBodies == TouchChains(MaxDefs)

TouchInit ==
  /\ pc = "touch"
  /\ stmt \in TouchBodies
  /\ thread = [var |-> "vt", num_threads |-> 2, allow_share |-> TRUE]
  /\ touched_var = {}
  /\ affect = NewVarTouchedAnalysis.affect
  /\ inserted = NewVarTouchedAnalysis.inserted
  /\ pending = <<>>
  /\ injector = Undef
  /\ result = Undef
  /\ mem_to_shape = NoShape
  /\ checker = Undef

TouchNext == TouchedVarWalk \/ TouchedVarStep \/ TouchedVarReturn
SpecTouch == TouchInit /\ [][TouchNext]_vars

(***************************************************************************)
(* Claims about the touch analysis.                                        *)
(***************************************************************************)
\* the variables an expression reads; the extent of a tvm_access_ptr is
\* counted as read only when with_extent is set
RECURSIVE Reads(_, _)
ReadsOfAll(es, with_extent) == UNION {Reads(es[i], with_extent) : i \in 1..Len(es)}
Reads(e, with_extent) ==
  CASE e.k = "Variable" -> {e.name}
    [] e.k = "Load" -> {e.buf} \cup Reads(e.index, with_extent) \cup Reads(e.pred, with_extent)
    [] e.k = "Call" ->
         IF e.name = "tvm_access_ptr"
         THEN (IF e.args[5].v % 2 = 1 THEN {e.args[2].name} ELSE {})
              \cup Reads(e.args[3], with_extent)
              \cup (IF with_extent THEN Reads(e.args[4], with_extent) ELSE {})
         ELSE ReadsOfAll(e.args, with_extent)
    [] e.k \in BinOps -> Reads(e.a, with_extent) \cup Reads(e.b, with_extent)
    [] e.k = "Ramp" -> Reads(e.base, with_extent) \cup Reads(e.stride, with_extent)
    [] e.k = "Cast" -> Reads(e.a, with_extent)
    [] OTHER -> {}

\* the buffers an expression writes through tvm_access_ptr with the write bit
RECURSIVE Writes(_)
Writes(e) ==
  CASE e.k = "Call" ->
         IF e.name = "tvm_access_ptr"
         THEN (IF (e.args[5].v \div 2) % 2 = 1 THEN {e.args[2].name} ELSE {})
              \cup Writes(e.args[3])
         ELSE UNION {Writes(e.args[i]) : i \in 1..Len(e.args)}
    [] e.k = "Load" -> Writes(e.index) \cup Writes(e.pred)
    [] e.k \in BinOps -> Writes(e.a) \cup Writes(e.b)
    [] OTHER -> {}

\* the defining forms of a statement: the defined variable and what its
\* defining expressions read
RECURSIVE DefiningForms(_, _)
DefiningForms(s, we) ==
  CASE s.k = "LetStmt" ->
         {[def |-> s.var, reads |-> Reads(s.value, we)]} \cup DefiningForms(s.body, we)
    [] s.k = "Store" ->
         {[def |-> s.buf, reads |-> Reads(s.value, we) \cup Reads(s.index, we)]}
    [] s.k = "For" ->
         {[def |-> s.loop_var, reads |-> Reads(s.min, we) \cup Reads(s.extent, we)]}
         \cup DefiningForms(s.body, we)
    [] s.k = "Allocate" ->
         {[def |-> s.buf,
           reads |-> ReadsOfAll(s.extents, we) \cup Reads(s.cond, we)
                     \cup (IF Defined(s.new_expr) THEN Reads(s.new_expr, we) ELSE {})]}
         \cup DefiningForms(s.body, we)
    [] s.k = "Evaluate" ->
         {[def |-> w, reads |-> Reads(s.value, we)] : w \in Writes(s.value)}
    [] s.k \in {"AttrStmt", "AssertStmt"} -> DefiningForms(s.body, we)
    [] s.k = "IfThenElse" ->
         DefiningForms(s.then_case, we)
         \cup (IF Defined(s.else_case) THEN DefiningForms(s.else_case, we) ELSE {})
    [] s.k = "Block" -> DefiningForms(s.first, we) \cup DefiningForms(s.rest, we)
    [] OTHER -> {}

\* one round of the touch relation, and its least fixed point above T
TouchRound(T, forms) == T \cup {d.def : d \in {x \in forms : x.reads \cap T # {}}}
RECURSIVE TouchClosure(_, _)
TouchClosure(T, forms) ==
  IF TouchRound(T, forms) = T THEN T ELSE TouchClosure(TouchRound(T, forms), forms)

\* the worklist after at most n more turns of the while loop
RECURSIVE TurnsLeft(_, _)
TurnsLeft(w, n) ==
  IF w.pending = <<>> THEN 0
  ELSE IF n = 0 THEN 1
  ELSE 1 + TurnsLeft(WhileTurn(w), n - 1)

\* the worklist is sound, without repetition, and empties within one turn
\* per variable; the set returned is the least fixed point over forms
TouchedVarIsClosure(forms) ==
  /\ pc \in {"propagate", "inject"} =>
       /\ \A v \in VTNames : inserted[v] <= 1
       /\ touched_var \subseteq TouchClosure({thread.var}, forms)
       /\ \A j \in 1..Len(pending) :
            /\ pending[j] \in touched_var
            /\ \A l \in 1..Len(pending) : pending[l] = pending[j] => l = j
       /\ TurnsLeft([touched_var |-> touched_var, inserted |-> inserted,
                     pending |-> pending], Cardinality(VTNames))
            <= Cardinality(VTNames)
  /\ pc = "inject" =>
       /\ touched_var = TouchClosure({thread.var}, forms)
       /\ TouchRound(touched_var, forms) = touched_var

\* C4 as written: TouchedVar terminates and returns exactly the least set
\* that holds v and is closed under the touch relation, where a defining
\* expression reads every variable that occurs in it.
C4_EveryVariableRead == TouchedVarIsClosure(DefiningForms(stmt, TRUE))

\* C4: TouchedVar terminates and returns exactly the least set that holds v
\* and is closed under the touch relation of the defining forms, where a
\* tvm_access_ptr reads its buffer (read bit) and its offset but not its
\* extent; the result does not depend on the order of the definitions in the
\* tree (cycles included), no variable is inserted twice, and closing the
\* result again adds nothing.
C4_TouchedVarLeastFixedPoint == TouchedVarIsClosure(DefiningForms(stmt, FALSE))

\* C4 witness: the analysis has returned, and two variables or more were
\* touched only by the worklist, their definitions standing before the
\* definition that makes their source touched
C4_Witness ==
  /\ pc = "inject"
  /\ LET walk == VarTouchedAnalysis(stmt, InsertTouched(NewVarTouchedAnalysis, thread.var))
     IN Cardinality(touched_var \ walk.touched_var) >= 2

(***************************************************************************)
(* VTInjector: the rewrite of the body of one virtual_thread attribute.    *)
(* The visitor state is threaded through the operators; a failed CHECK     *)
(* is recorded in err and ends the visit.                                  *)
(***************************************************************************)
\* the unrolling limit of InjectVTLoop
UnrollLimit == 16

\* operator+, operator* and operator/ of expressions, as the nodes they stand for
Add(a, b) == Bin("Add", a, b)
Mul(a, b) == Bin("Mul", a, b)
Div(a, b) == Bin("Div", a, b)

is_zero(e) == e.k = "IntImm" /\ e.v = 0

\* arith::ComputeReduce<Mul>(values, Expr()): the product from the left
RECURSIVE ComputeReduceMul(_, _)
ComputeReduceMul(values, n) ==
  IF n = 0 THEN Undef
  ELSE IF n = 1 THEN values[1]
  ELSE Mul(ComputeReduceMul(values, n - 1), values[n])

\* Substitute(node, {{var, value}})
RECURSIVE Substitute(_, _, _)
SubstituteAll(es, var, value) == [j \in 1..Len(es) |-> Substitute(es[j], var, value)]
Substitute(x, var, value) ==
  CASE x.k = "Variable" -> IF x.name = var THEN value ELSE x
    [] x.k = "Load" -> Load(x.buf, Substitute(x.index, var, value), Substitute(x.pred, var, value))
    [] x.k = "Call" -> Call(x.name, SubstituteAll(x.args, var, value))
    [] x.k \in BinOps -> Bin(x.k, Substitute(x.a, var, value), Substitute(x.b, var, value))
    [] x.k = "Ramp" ->
         Ramp(Substitute(x.base, var, value), Substitute(x.stride, var, value), x.lanes)
    [] x.k = "Cast" -> Cast(x.t, Substitute(x.a, var, value))
    [] x.k = "Store" ->
         Store(x.buf, Substitute(x.value, var, value), Substitute(x.index, var, value),
               Substitute(x.pred, var, value))
    [] x.k = "LetStmt" ->
         LetStmt(x.var, Substitute(x.value, var, value), Substitute(x.body, var, value))
    [] x.k = "AttrStmt" ->
         AttrStmt(x.node, x.key, Substitute(x.value, var, value), Substitute(x.body, var, value))
    [] x.k = "For" ->
         For(x.loop_var, Substitute(x.min, var, value), Substitute(x.extent, var, value),
             Substitute(x.body, var, value))
    [] x.k = "IfThenElse" ->
         IfThenElse(Substitute(x.cond, var, value), Substitute(x.then_case, var, value),
                    Substitute(x.else_case, var, value))
    [] x.k = "Block" -> Block(Substitute(x.first, var, value), Substitute(x.rest, var, value))
    [] x.k = "Evaluate" -> Evaluate(Substitute(x.value, var, value))
    [] x.k = "Allocate" ->
         Allocate(x.buf, x.lanes, SubstituteAll(x.extents, var, value),
                  Substitute(x.cond, var, value), Substitute(x.body, var, value),
                  Substitute(x.new_expr, var, value))
    [] x.k = "AssertStmt" ->
         AssertStmt(Substitute(x.cond, var, value), x.msg, Substitute(x.body, var, value))
    [] OTHER -> x

\* VTInjector(var, num_threads, touched_var, allow_share) and its fields;
\* injections and accesses keep what InjectVTLoop and the index rewrites did,
\* siblings the values max_loop_depth_ took around the second child of a
\* Block or an IfThenElse
NewVTInjector(var, num_threads, touched, allow_share) ==
  [var |-> var, num_threads |-> num_threads, touched_var |-> touched,
   allow_share |-> allow_share,
   vt_loop_injected |-> FALSE, visit_touched_var |-> FALSE,
   trigger_base_inject |-> FALSE, max_loop_depth |-> 0,
   alloc_remap |-> [b \in VTNames |-> Undef],
   err |-> "ok", injections |-> <<>>, accesses |-> <<>>, siblings |-> <<>>]

\* a CHECK that fails
Fail(st, check) == IF st.err = "ok" THEN [st EXCEPT !.err = check] ELSE st

Touch(st, name) ==
  IF name \in st.touched_var THEN [st EXCEPT !.visit_touched_var = TRUE] ELSE st

\* RewriteIndex(index, alloc_extent)
RewriteIndex(index, alloc_extent, st) == Add(index, Mul(Var(st.var), alloc_extent))

\* the offset of a tvm_access_ptr into a remapped buffer
AccessPtrOffsetWholeStride(offset, alloc_extent, lanes, st) ==
  Add(Mul(alloc_extent, Var(st.var)), offset)
AccessPtrOffset(offset, alloc_extent, lanes, st) ==
  Add(Mul(Div(alloc_extent, IntImm(lanes)), Var(st.var)), offset)

LogAccess(st, node, buf, old, new) ==
  [st EXCEPT !.accesses =
     Append(@, [node |-> node, buf |-> buf, old |-> old, new |-> new,
                remap |-> st.alloc_remap[buf]])]

\* what a visit returns: the mutated node and the injector after the visit
ExprResult(e, st) == [e |-> e, st |-> st]
StmtResult(s, st) == [s |-> s, st |-> st]

\* the index of an access: rewritten when the buffer is in alloc_remap_
NewIndex(index, it, st) == IF Defined(it) THEN RewriteIndex(index, it, st) ELSE index

\* VTInjector::VisitExpr_ (Variable, Load, Call) and the default mutation;
\* each operator below takes the handler up after one child was visited
RECURSIVE VTVisitExpr(_, _), VTVisitExprs(_, _, _, _), VTVisitExprsNext(_, _, _, _),
          LoadPredicate(_, _), AccessPtrExtent(_, _, _), BinRight(_, _), RampStride(_, _)

LoadMutated(e, index, p) ==
  IF p.st.err # "ok" THEN ExprResult(e, p.st)
  ELSE LET s1 == Touch(p.st, e.buf)
           new == NewIndex(index, s1.alloc_remap[e.buf], s1)
       IN ExprResult(Load(e.buf, new, p.e), LogAccess(s1, e, e.buf, index, new))
LoadPredicate(e, i) == LoadMutated(e, i.e, VTVisitExpr(e.pred, i.st))

AccessPtrKept(e, a) ==
  ExprResult(Call(e.name, a.es),
             IF a.st.err # "ok" THEN a.st
             ELSE LogAccess(a.st, e, e.args[2].name, a.es[3], a.es[3]))
AccessPtrMutated(e, it, offset, extent) ==
  LET new == AccessPtrOffset(offset, it, e.args[1].args[1].v, extent.st)
  IN ExprResult(Call(e.name, <<e.args[1], e.args[2], new, extent.e, e.args[5]>>),
                IF extent.st.err # "ok" THEN extent.st
                ELSE LogAccess(extent.st, e, e.args[2].name, offset, new))
AccessPtrExtent(e, it, offset) ==
  AccessPtrMutated(e, it, offset.e, VTVisitExpr(e.args[4], offset.st))

CallMutated(e, a) == ExprResult(Call(e.name, a.es), a.st)
BinMutated(e, a, b) == ExprResult(Bin(e.k, a, b.e), b.st)
BinRight(e, a) == BinMutated(e, a.e, VTVisitExpr(e.b, a.st))
RampMutated(e, base, stride) == ExprResult(Ramp(base, stride.e, e.lanes), stride.st)
RampStride(e, base) == RampMutated(e, base.e, VTVisitExpr(e.stride, base.st))
CastMutated(e, a) == ExprResult(Cast(e.t, a.e), a.st)

VTVisitExpr(e, st) ==
  IF st.err # "ok" THEN ExprResult(e, st)
  ELSE CASE e.k = "Variable" ->
              ExprResult(e, IF Defined(st.alloc_remap[e.name])
                            THEN Fail(st, "Buffer address may get rewritten in virtual thread")
                            ELSE Touch(st, e.name))
         [] e.k = "Load" -> LoadPredicate(e, VTVisitExpr(e.index, st))
         [] e.k = "Call" ->
              IF e.name = "tvm_access_ptr"
              THEN IF Len(e.args) # 5 THEN ExprResult(e, Fail(st, "args.size() == 5"))
                   ELSE IF ~Defined(st.alloc_remap[e.args[2].name])
                   THEN AccessPtrKept(e, VTVisitExprs(e.args, 1, <<>>, st))
                   ELSE AccessPtrExtent(e, st.alloc_remap[e.args[2].name],
                                        VTVisitExpr(e.args[3],
                                                    [st EXCEPT !.visit_touched_var = TRUE]))
              ELSE IF e.name = "tvm_context_id"
              THEN ExprResult(IF st.allow_share THEN e ELSE Var(st.var), st)
              ELSE CallMutated(e, VTVisitExprs(e.args, 1, <<>>, st))
         [] e.k \in BinOps -> BinRight(e, VTVisitExpr(e.a, st))
         [] e.k = "Ramp" -> RampStride(e, VTVisitExpr(e.base, st))
         [] e.k = "Cast" -> CastMutated(e, VTVisitExpr(e.a, st))
         [] OTHER -> ExprResult(e, st)
VTVisitExprs(es, i, done, st) ==
  IF i > Len(es) THEN [es |-> done, st |-> st]
  ELSE VTVisitExprsNext(es, i, done, VTVisitExpr(es[i], st))
VTVisitExprsNext(es, i, done, x) == VTVisitExprs(es, i + 1, Append(done, x.e), x.st)

\* the unrolled form: the copies for 0 .. n-1, each new copy put after the
\* block built so far
RECURSIVE UnrolledFrom(_, _, _, _)
UnrolledFrom(body, var, from, n) ==
  IF from >= n - 1 THEN Substitute(body, var, IntImm(from))
  ELSE Block(Substitute(body, var, IntImm(from)), UnrolledFrom(body, var, from + 1, n))
UnrolledRight(body, var, n) == UnrolledFrom(body, var, 0, n)
RECURSIVE Unrolled(_, _, _)
Unrolled(body, var, n) ==
  IF n <= 1 THEN Substitute(body, var, IntImm(0))
  ELSE Block(Unrolled(body, var, n - 1), Substitute(body, var, IntImm(n - 1)))

\* the serial loop over idx = var.s
SerialLoop(body, var, n) ==
  For(var \o ".s", IntImm(0), IntImm(n), Substitute(body, var, Var(var \o ".s")))

UnrollUpToLimit(st) == st.max_loop_depth = 0 /\ st.num_threads <= UnrollLimit
UnrollChosen(st) == st.max_loop_depth = 0 /\ st.num_threads < UnrollLimit

\* where Allocate puts the extent of the threads
ExpandInnermost(extents, st) == Append(extents, IntImm(st.num_threads))
ExpandExtents(extents, st) == <<IntImm(st.num_threads)>> \o extents

Max(a, b) == IF a >= b THEN a ELSE b

\* VTInjector::VisitStmt, the VisitStmt_ overloads and InjectVTLoop; each
\* operator below takes the handler up after one child was visited
RECURSIVE VTVisitStmt(_, _), VTVisitStmtOf(_, _), InjectVTLoop(_, _, _),
          VisitStmtReturn(_), VTVisitExtents(_, _, _, _), VTVisitExtent(_, _, _, _),
          AttrStmtValue(_, _), LetStmtValue(_, _), ForExtent(_, _), IfCondition(_, _),
          IfThen(_, _, _), IfSecond(_, _, _, _), BlockRest(_, _), BlockSecond(_, _, _),
          AllocateCondition(_, _),
          AllocateExtents(_, _, _), AssertBody(_, _)

\* VisitStmt after StmtExprMutator::VisitStmt(s)
VisitStmtReturn(r) ==
  IF r.st.err # "ok" THEN r
  ELSE IF r.st.visit_touched_var \/ r.st.trigger_base_inject
  THEN IF ~r.st.vt_loop_injected THEN InjectVTLoop(r.s, FALSE, r.st)
       ELSE StmtResult(r.s, [r.st EXCEPT !.visit_touched_var = FALSE,
                                         !.trigger_base_inject = FALSE])
  ELSE r

VTVisitStmt(s, st) ==
  IF st.err # "ok" THEN StmtResult(s, st)
  ELSE IF st.visit_touched_var THEN StmtResult(s, Fail(st, "!visit_touched_var_"))
  ELSE VisitStmtReturn(VTVisitStmtOf(s, st))

\* InjectVTLoop: the flags before the statement is visited, the loop that is
\* built after it, and the whole
InjectVTLoopEnter(st) ==
  [st EXCEPT !.visit_touched_var = FALSE, !.trigger_base_inject = FALSE,
             !.vt_loop_injected = TRUE]
InjectVTLoopMade(body, before_mutation, unroll, out, st) ==
  StmtResult(out, [st EXCEPT !.injections =
                     Append(@, [stmt |-> body, unrolled |-> unroll, out |-> out,
                                before_mutation |-> before_mutation])])
InjectVTLoopBuild(body, before_mutation, st) ==
  InjectVTLoopMade(body, before_mutation, UnrollChosen(st),
                   IF UnrollChosen(st) THEN Unrolled(body, st.var, st.num_threads)
                   ELSE SerialLoop(body, st.var, st.num_threads),
                   st)
InjectVTLoopReturn(before_mutation, r) ==
  IF r.st.err # "ok" THEN r
  ELSE InjectVTLoopBuild(r.s, before_mutation,
                         [r.st EXCEPT !.vt_loop_injected = FALSE, !.visit_touched_var = FALSE])
InjectVTLoop(body, before_mutation, st) ==
  IF st.err # "ok" THEN StmtResult(body, st)
  ELSE IF st.vt_loop_injected THEN StmtResult(body, Fail(st, "!vt_loop_injected_"))
  ELSE InjectVTLoopReturn(before_mutation,
                          IF before_mutation THEN VTVisitStmt(body, InjectVTLoopEnter(st))
                          ELSE StmtResult(body, InjectVTLoopEnter(st)))

EvaluateMutated(v) == StmtResult(Evaluate(v.e), v.st)

StoreMutated(s, value, index, p) ==
  IF p.st.err # "ok" THEN StmtResult(s, p.st)
  ELSE LET s1 == [Touch(p.st, s.buf) EXCEPT !.trigger_base_inject = ~p.st.allow_share]
           new == NewIndex(index, s1.alloc_remap[s.buf], s1)
       IN StmtResult(Store(s.buf, value, new, p.e), LogAccess(s1, s, s.buf, index, new))
StorePredicate(s, value, i) == StoreMutated(s, value, i.e, VTVisitExpr(s.pred, i.st))
StoreIndex(s, v) == StorePredicate(s, v.e, VTVisitExpr(s.index, v.st))

AttrStmtMutated(s, value, b) == StmtResult(AttrStmt(s.node, s.key, value, b.s), b.st)
AttrStmtValue(s, v) ==
  IF v.st.err # "ok" THEN StmtResult(s, v.st)
  ELSE IF v.st.visit_touched_var /\ ~v.st.vt_loop_injected THEN InjectVTLoop(s, TRUE, v.st)
  ELSE IF ~v.st.allow_share /\ ~v.st.vt_loop_injected
          /\ s.key \in {"coproc_uop_scope", "coproc_scope"}
  THEN InjectVTLoop(s, TRUE, v.st)
  ELSE AttrStmtMutated(s, v.e, VTVisitStmt(s.body, v.st))

LetStmtMutated(s, value, b) == StmtResult(LetStmt(s.var, value, b.s), b.st)
LetStmtValue(s, v) ==
  IF v.st.err # "ok" THEN StmtResult(s, v.st)
  ELSE IF v.st.visit_touched_var /\ ~v.st.vt_loop_injected THEN InjectVTLoop(s, TRUE, v.st)
  ELSE LetStmtMutated(s, v.e, VTVisitStmt(s.body, [v.st EXCEPT !.visit_touched_var = FALSE]))

ForInjected(j) == StmtResult(j.s, [j.st EXCEPT !.max_loop_depth = @ + 1])
ForMutated(s, extent, b) ==
  StmtResult(For(s.loop_var, s.min, extent, b.s), [b.st EXCEPT !.max_loop_depth = @ + 1])
ForExtent(s, x) ==
  IF x.st.err # "ok" THEN StmtResult(s, x.st)
  ELSE IF x.st.visit_touched_var /\ ~x.st.vt_loop_injected
  THEN ForInjected(InjectVTLoop(s, TRUE, x.st))
  ELSE ForMutated(s, x.e, VTVisitStmt(s.body, [x.st EXCEPT !.visit_touched_var = FALSE]))

\* max_loop_depth_ = 0 before the second sibling is visited
SecondSiblingKeep(st) == st
SecondSibling(st) == [st EXCEPT !.max_loop_depth = 0]

\* the counter around the second sibling: temp, its value when the sibling
\* is entered (entry) and left (second), and what the handler leaves (st)
LogSiblings(st, kind, temp, entry, second) ==
  [st EXCEPT !.siblings =
     Append(@, [kind |-> kind, first |-> temp, entry |-> entry, second |-> second,
                after |-> st.max_loop_depth, revisit |-> st.vt_loop_injected])]

IfElse(cond, then_case, temp, entry, e) ==
  StmtResult(IfThenElse(cond, then_case, e.s),
             IF e.st.err = "ok"
             THEN LogSiblings([e.st EXCEPT !.max_loop_depth = Max(temp, @)],
                              "IfThenElse", temp, entry, e.st.max_loop_depth)
             ELSE e.st)
IfSecond(s, cond, t, st) ==
  IfElse(cond, t.s, t.st.max_loop_depth, st.max_loop_depth, VTVisitStmt(s.else_case, st))
IfThen(s, cond, t) ==
  IF ~Defined(s.else_case) THEN StmtResult(IfThenElse(cond, t.s, Undef), t.st)
  ELSE IfSecond(s, cond, t, SecondSibling(t.st))
IfCondition(s, c) ==
  IF c.st.err # "ok" THEN StmtResult(s, c.st)
  ELSE IF c.st.visit_touched_var /\ ~c.st.vt_loop_injected THEN InjectVTLoop(s, TRUE, c.st)
  ELSE IF c.st.max_loop_depth # 0 THEN StmtResult(s, Fail(c.st, "max_loop_depth_ == 0"))
  ELSE IfThen(s, c.e, VTVisitStmt(s.then_case, [c.st EXCEPT !.visit_touched_var = FALSE]))

BlockMutated(first, temp, entry, r) ==
  StmtResult(Block(first, r.s),
             IF r.st.err = "ok"
             THEN LogSiblings([r.st EXCEPT !.max_loop_depth = Max(@, temp)],
                              "Block", temp, entry, r.st.max_loop_depth)
             ELSE r.st)
BlockSecond(s, f, st) ==
  BlockMutated(f.s, f.st.max_loop_depth, st.max_loop_depth, VTVisitStmt(s.rest, st))
BlockRest(s, f) == BlockSecond(s, f, SecondSibling(f.st))

\* the loop over op->extents of the Allocate handler; inject tells that the
\* handler returns InjectVTLoop
VTVisitExtents(extents, i, done, st) ==
  IF i > Len(extents) \/ st.err # "ok" THEN [es |-> done, st |-> st, inject |-> FALSE]
  ELSE VTVisitExtent(extents, i, done, VTVisitExpr(extents[i], st))
VTVisitExtent(extents, i, done, x) ==
  IF x.st.err = "ok" /\ x.st.visit_touched_var /\ ~x.st.vt_loop_injected
  THEN [es |-> done, st |-> x.st, inject |-> TRUE]
  ELSE VTVisitExtents(extents, i + 1, Append(done, x.e), x.st)

\* the stride recorded in alloc_remap_
AllocStride(s) == Mul(ComputeReduceMul(s.extents, Len(s.extents)), IntImm(s.lanes))

AllocateMutated(s, extents, cond, b) ==
  StmtResult(Allocate(s.buf, s.lanes, extents, cond, b.s, s.new_expr), b.st)
AllocateExtents(s, cond, x) ==
  IF x.st.err # "ok" THEN StmtResult(s, x.st)
  ELSE IF x.inject THEN InjectVTLoop(s, TRUE, x.st)
  ELSE LET s2 == [x.st EXCEPT !.visit_touched_var = FALSE]
       IN IF s.buf \in s2.touched_var \/ ~s2.allow_share
          THEN AllocateMutated(s, ExpandExtents(x.es, s2), cond,
                 VTVisitStmt(s.body, [s2 EXCEPT !.alloc_remap[s.buf] = AllocStride(s)]))
          ELSE AllocateMutated(s, x.es, cond, VTVisitStmt(s.body, s2))
AllocateCondition(s, c) ==
  IF c.st.err # "ok" THEN StmtResult(s, c.st)
  ELSE IF c.st.visit_touched_var /\ ~c.st.vt_loop_injected THEN InjectVTLoop(s, TRUE, c.st)
  ELSE AllocateExtents(s, c.e, VTVisitExtents(s.extents, 1, <<>>, c.st))

AssertMutated(s, cond, b) == StmtResult(AssertStmt(cond, s.msg, b.s), b.st)
AssertBody(s, c) == AssertMutated(s, c.e, VTVisitStmt(s.body, c.st))

VTVisitStmtOf(s, st) ==
  CASE s.k = "Evaluate" ->
         EvaluateMutated(VTVisitExpr(s.value,
                                     [st EXCEPT !.trigger_base_inject = ~st.allow_share]))
    [] s.k = "Store" -> StoreIndex(s, VTVisitExpr(s.value, st))
    [] s.k = "AttrStmt" -> AttrStmtValue(s, VTVisitExpr(s.value, st))
    [] s.k = "LetStmt" -> LetStmtValue(s, VTVisitExpr(s.value, st))
    [] s.k = "For" ->
         IF ~is_zero(s.min) THEN StmtResult(s, Fail(st, "is_zero(op->min)"))
         ELSE ForExtent(s, VTVisitExpr(s.extent, st))
    [] s.k = "IfThenElse" -> IfCondition(s, VTVisitExpr(s.cond, st))
    [] s.k = "Block" ->
         IF st.max_loop_depth # 0 THEN StmtResult(s, Fail(st, "max_loop_depth_ == 0"))
         ELSE BlockRest(s, VTVisitStmt(s.first, st))
    [] s.k = "Allocate" ->
         IF Defined(s.new_expr) /\ ~st.vt_loop_injected THEN InjectVTLoop(s, TRUE, st)
         ELSE AllocateCondition(s, VTVisitExpr(s.cond, st))
    [] s.k = "AssertStmt" -> AssertBody(s, VTVisitExpr(s.cond, st))
    [] OTHER -> StmtResult(s, st)

\* what the pass is left with: the rewritten body, or nothing after a failed CHECK
VTInjected(r) ==
  /\ injector' = r.st
  /\ result' = IF r.st.err = "ok" THEN r.s ELSE Undef
  /\ pc' = IF r.st.err = "ok" THEN "done" ELSE "aborted"

\* VirtualThreadInjector::VisitStmt_(const AttrStmt*): injecter(op->body)
VTInject ==
  /\ pc = "inject"
  /\ VTInjected(VTVisitStmt(stmt, NewVTInjector(thread.var, thread.num_threads, touched_var,
                                                thread.allow_share)))
  /\ UNCHANGED <<stmt, thread, touched_var, affect, pending, inserted, bcvars>>

(***************************************************************************)
(* The bodies of the virtual_thread attribute: a Store or an Evaluate      *)
(* under up to MaxWrap enclosing statements, with at most one Allocate,    *)
(* of buffer B.                                                            *)
(***************************************************************************)
\* the thread counts 1 .. MaxThreads, beside those at the unrolling limit
MaxThreads == 3
\* the statements that enclose the innermost one
MaxWrap == 2

tvm_context_id == Call("tvm_context_id", <<>>)

VTValues ==
  {IntImm(1), Var("vt"), Var("x"), tvm_context_id, Load("B", IntImm(0), TruePred),
   tvm_access_ptr(2, "B", IntImm(0), IntImm(1), 1)}

VTLeaves ==
  {Store("A", v, IntImm(0), TruePred) : v \in VTValues}
  \cup {Store("B", v, Var("i"), TruePred) : v \in {IntImm(1), Var("vt")}}
  \cup {Evaluate(Call("f", <<v>>)) :
          v \in {IntImm(1), Var("vt"), tvm_access_ptr(2, "B", IntImm(0), IntImm(1), 2)}}

VTWrappers(b) ==
  {LetStmt("x", v, b) : v \in {IntImm(1), Var("vt"), tvm_context_id,
                               Load("B", IntImm(0), TruePred)}}
  \cup {For("i", IntImm(0), e, b) : e \in {IntImm(4), Var("vt")}}
  \cup {IfThenElse(c, b, Undef) : c \in {Var("n"), Var("vt")}}
  \cup {IfThenElse(c, b, Store("A", Var("vt"), IntImm(0), TruePred)) : c \in {Var("n"), Var("vt")}}
  \cup {AttrStmt(Undef, key, IntImm(0), b) : key \in {"coproc_scope", "pragma_scope"}}
  \cup {AttrStmt(Undef, "pragma_scope", Var("vt"), b)}
  \cup {Block(b, Store("A", IntImm(1), IntImm(0), TruePred)),
        Block(Store("A", Var("vt"), IntImm(0), TruePred), b),
        Block(For("i", IntImm(0), IntImm(4), Store("A", IntImm(1), IntImm(0), TruePred)), b)}

VTAllocates(b) ==
  {Allocate("B", 1, <<IntImm(4)>>, TruePred, b, Undef),
   Allocate("B", 2, <<IntImm(4), Var("n")>>, TruePred, b, Undef),
   Allocate("B", 1, <<Var("vt")>>, TruePred, b, Undef),
   Allocate("B", 1, <<IntImm(4)>>, Var("vt"), b, Undef),
   Allocate("B", 1, <<IntImm(4)>>, TruePred, b, Call("alloc", <<>>))}

RECURSIVE VTBodies(_, _)
VTBodies(n, with_allocate) ==
  IF n = 0 THEN VTLeaves
  ELSE VTLeaves
       \cup UNION {VTWrappers(b) : b \in VTBodies(n - 1, with_allocate)}
       \cup (IF with_allocate THEN UNION {VTAllocates(b) : b \in VTBodies(n - 1, FALSE)}
             ELSE {})

VTAllBodies == VTBodies(MaxWrap, TRUE)
VTShallowBodies == VTBodies(MaxWrap - 1, TRUE)

VTInit ==
  /\ pc = "touch"
  /\ \E n \in (1..MaxThreads) \cup {UnrollLimit - 1, UnrollLimit}, share \in BOOLEAN :
       /\ thread = [var |-> "vt", num_threads |-> n, allow_share |-> share]
       /\ stmt \in (IF n <= MaxThreads THEN VTAllBodies ELSE VTShallowBodies)
  /\ touched_var = {}
  /\ affect = NewVarTouchedAnalysis.affect
  /\ inserted = NewVarTouchedAnalysis.inserted
  /\ pending = <<>>
  /\ injector = Undef
  /\ result = Undef
  /\ mem_to_shape = NoShape
  /\ checker = Undef

VTNext == TouchedVarWalk \/ TouchedVarStep \/ TouchedVarReturn \/ VTInject
SpecVT == VTInit /\ [][VTNext]_vars

(***************************************************************************)
(* Claims about the bound checker.                                         *)
(***************************************************************************)
\* whether a tvm_if_then_else call occurs in e
RECURSIVE ContainsSelect(_)
ContainsSelect(e) ==
  CASE e.k = "Call" ->
         e.name = "tvm_if_then_else" \/ \E i \in 1..Len(e.args) : ContainsSelect(e.args[i])
    [] e.k = "Load" -> ContainsSelect(e.index) \/ ContainsSelect(e.pred)
    [] e.k \in BinOps -> ContainsSelect(e.a) \/ ContainsSelect(e.b)
    [] e.k = "Ramp" -> ContainsSelect(e.base) \/ ContainsSelect(e.stride)
    [] e.k = "Cast" -> ContainsSelect(e.a)
    [] OTHER -> FALSE

\* a store is unsafe when a select occurs in what the store visit walks
UnsafeStore(op) ==
  ContainsSelect(op.value) \/ ContainsSelect(op.index) \/ ContainsSelect(op.pred)

\* out is IfThenElse(c, op, AssertStmt(c, "OUT OF THE BOUNDS", Evaluate(1)))
IsWrapOf(out, op) ==
  /\ out.k = "IfThenElse"
  /\ out.cond.k # "StringImm"
  /\ out.then_case = op
  /\ out.else_case = AssertStmt(out.cond, StringImm("OUT OF THE BOUNDS"), Evaluate(IntImm(1)))

\* the stores of in, position by position, against the output
RECURSIVE StoresSound(_, _)
StoresSound(in, out) ==
  CASE in.k = "Store" ->
         IF Defined(mem_to_shape[in.buf])
         THEN IF out.k = "Store" THEN out = in /\ UnsafeStore(in) ELSE IsWrapOf(out, in)
         ELSE TRUE
    [] in.k \in {"AttrStmt", "LetStmt", "For", "Allocate"} ->
         out.k = in.k /\ StoresSound(in.body, out.body)
    [] in.k = "Block" ->
         out.k = "Block" /\ StoresSound(in.first, out.first) /\ StoresSound(in.rest, out.rest)
    [] in.k = "IfThenElse" ->
         /\ out.k = "IfThenElse"
         /\ StoresSound(in.then_case, out.then_case)
         /\ StoresSound(in.else_case, out.else_case)
    [] OTHER -> out.k = in.k

\* C1: in the output, every Store to a buffer with a known shape is either left
\* as it was, and then it was unsafe, or replaced by IfThenElse(condition,
\* store, AssertStmt(condition, "OUT OF THE BOUNDS", Evaluate(1))) whose true
\* branch is the original store and whose false branch asserts that condition.
C1_BoundCheckSoundness == pc = "done" => StoresSound(stmt, result)

\* C1 witness: a store to a buffer with a known shape was wrapped, and another
\* run's case is covered by C1_WitnessUnsafe
C1_Witness ==
  /\ pc = "done"
  /\ \E n \in 1..Len(checker.stores) :
       LET ev == checker.stores[n]
       IN /\ Defined(ev.shapes[ev.op.buf])
          /\ ev.out.k = "IfThenElse"
          /\ ev.op.pred # TruePred

\* C2: a Store whose value contains a tvm_if_then_else call is returned
\* unchanged, whatever Loads of known buffers surround the call.
C2_UnsafeSkip ==
  pc = "done" =>
    \A n \in 1..Len(checker.stores) :
      LET ev == checker.stores[n]
      IN ContainsSelect(ev.op.value) => ev.out = ev.op


\* the range check the claim describes for one access
ClaimCheck(index, bound) ==
  LET last == IF index.k = "Ramp"
              THEN Bin("Add", index.base, Bin("Mul", index.stride, IntImm(index.lanes - 1)))
              ELSE index
      i64 == Cast("int64", Simplify(last))
  IN Bin("And", Bin("GE", i64, Const("int64", 0)),
                Bin("LT", i64, Cast("int64", Simplify(bound))))

\* The checks of the instrumentable Loads of e in visit order, appended to
\* acc.checks; acc.seen tells whether a select was met before.
RECURSIVE LoadChecks(_, _, _), LoadChecksOfArgs(_, _, _, _)
LoadChecks(e, shapes, acc) ==
  CASE e.k = "Load" ->
         LET a1 == IF Defined(shapes[e.buf]) /\ ~acc.seen
                   THEN [acc EXCEPT !.checks = Append(@, ClaimCheck(e.index, shapes[e.buf]))]
                   ELSE acc
         IN LoadChecks(e.pred, shapes, LoadChecks(e.index, shapes, a1))
    [] e.k = "Call" ->
         LoadChecksOfArgs(e.args, 1, shapes,
                          [acc EXCEPT !.seen = @ \/ e.name = "tvm_if_then_else"])
    [] e.k \in BinOps -> LoadChecks(e.b, shapes, LoadChecks(e.a, shapes, acc))
    [] e.k = "Ramp" -> LoadChecks(e.stride, shapes, LoadChecks(e.base, shapes, acc))
    [] e.k = "Cast" -> LoadChecks(e.a, shapes, acc)
    [] OTHER -> acc
LoadChecksOfArgs(es, i, shapes, acc) ==
  IF i > Len(es) THEN acc
  ELSE LoadChecksOfArgs(es, i + 1, shapes, LoadChecks(es[i], shapes, acc))

NoChecks == [checks |-> <<>>, seen |-> FALSE]

\* the conjunction of the checks cs[1..i], in order
RECURSIVE Conjunction(_, _)
Conjunction(cs, i) ==
  IF i = 1 THEN cs[1] ELSE Bin("And", Conjunction(cs, i - 1), cs[i])

\* the guard of the claim as written: the Loads of value and index (with or
\* without those of the predicate), then the store's own index
WrittenGuards(ev) ==
  LET vi  == LoadChecks(ev.op.index, ev.shapes, LoadChecks(ev.op.value, ev.shapes, NoChecks))
      vip == LoadChecks(ev.op.pred, ev.shapes, vi)
      own == ClaimCheck(ev.op.index, ev.shapes[ev.op.buf])
  IN { Conjunction(Append(a.checks, own), Len(a.checks) + 1) : a \in {vi, vip} }

\* C3 as written: the guard of every wrapped store is the conjunction of one
\* range check per instrumentable Load of the store and one for the store's
\* own index.  Stated for the stores free of tvm_if_then_else only.
C3_GuardAsWritten ==
  pc = "done" =>
    \A n \in 1..Len(checker.stores) :
      LET ev == checker.stores[n]
      IN (ev.out.k = "IfThenElse" /\ ~UnsafeStore(ev.op)) => ev.out.cond \in WrittenGuards(ev)

\* the checks of a store: its Loads in value, index and predicate, then its
\* own index when its buffer has a shape and no select was met
StoreChecks(ev) ==
  LET a == LoadChecks(ev.op.pred, ev.shapes,
             LoadChecks(ev.op.index, ev.shapes,
               LoadChecks(ev.op.value, ev.shapes, NoChecks)))
  IN IF Defined(ev.shapes[ev.op.buf]) /\ ~a.seen
     THEN Append(a.checks, ClaimCheck(ev.op.index, ev.shapes[ev.op.buf]))
     ELSE a.checks

\* C3 (amended): a store is wrapped exactly when it has a check, and its
\* guard is the conjunction, in visit order, of one range check per Load
\* of value, index and predicate that was instrumentable when visited,
\* followed by one for the store's own index only if the store itself is
\* instrumentable; nothing collected before the store is part of it.
C3_GuardCondition ==
  pc = "done" =>
    \A n \in 1..Len(checker.stores) :
      LET ev == checker.stores[n]
          cs == StoreChecks(ev)
      IN IF cs = <<>> THEN ev.out = ev.op
         ELSE IsWrapOf(ev.out, ev.op) /\ ev.out.cond = Conjunction(cs, Len(cs))

\* C3 witness: a store to a buffer without a shape is wrapped on behalf of a
\* Load alone, after an earlier statement left pairs in the collector, and a
\* store through a Ramp index is wrapped with two checks or more
C3_Witness ==
  /\ pc = "done"
  /\ stmt.body.k = "Block"
  /\ \E n \in 1..Len(checker.stores) :
       LET ev == checker.stores[n]
       IN /\ n > 1 \/ stmt.body.first.k = "Evaluate"
          /\ ev.out.k = "IfThenElse"
          /\ ev.op.index.k = "Ramp"
          /\ Len(ev.collector) >= 2
          /\ ~Defined(ev.shapes[ev.op.buf])


(***************************************************************************)
(* Unsigned 64-bit values, as 8 digits in base 256, least significant      *)
(* first, and the value of a shape expression.                             *)
(***************************************************************************)
RECURSIVE Digits(_, _)
Digits(n, count) == IF count = 0 THEN <<>> ELSE <<n % 256>> \o Digits(n \div 256, count - 1)
U64(n) == Digits(n, 8)

\* the sum of a[i] * b[d + 1 - i] for i in from..d
RECURSIVE DigitSum(_, _, _, _)
DigitSum(a, b, d, from) ==
  IF from > d THEN 0 ELSE a[from] * b[d + 1 - from] + DigitSum(a, b, d, from + 1)

\* the digits d..8 of a * b modulo 2^64
RECURSIVE MulDigits(_, _, _, _)
MulDigits(a, b, d, carry) ==
  IF d > 8 THEN <<>>
  ELSE LET sum == carry + DigitSum(a, b, d, 1)
       IN <<sum % 256>> \o MulDigits(a, b, d + 1, sum \div 256)
MulU64(a, b) == MulDigits(a, b, 1, 0)

\* the uint64 value of a shape expression when the variable n holds nval
RECURSIVE Eval64(_, _)
Eval64(e, nval) ==
  CASE e.k = "IntImm" -> U64(e.v)
    [] e.k = "Variable" -> U64(nval)
    [] e.k = "Cast" -> Eval64(e.a, nval)
    [] e.k = "Mul" -> MulU64(Eval64(e.a, nval), Eval64(e.b, nval))

\* the values the extent variable n takes
ExtentValues == {0, 3, MaxInt32}

\* lanes^count modulo 2^64
RECURSIVE PowU64(_, _)
PowU64(lanes, count) ==
  IF count = 0 THEN U64(1) ELSE MulU64(U64(lanes), PowU64(lanes, count - 1))

\* the product of the extents ex[1..i] modulo 2^64
RECURSIVE ExtentProduct(_, _, _)
ExtentProduct(ex, i, nval) ==
  IF i = 0 THEN U64(1)
  ELSE MulU64(ExtentProduct(ex, i - 1, nval),
              IF ex[i].k = "IntImm" THEN U64(ex[i].v) ELSE U64(nval))

WellFormedExtents(ex) ==
  /\ Len(ex) > 0
  /\ \A i \in 1..Len(ex) :
       Defined(ex[i]) /\ DtypeLanes(ex[i]) = 1 /\ ~is_negative_const(ex[i])

\* the table a store sees is the one the latest Allocate before it left, or
\* the collector's
ShapesSeenBy(n) ==
  LET before == {a \in 1..Len(checker.allocs) : checker.allocs[a].at < n}
  IN IF before = {} THEN mem_to_shape
     ELSE checker.allocs[CHOOSE a \in before : \A c \in before : c <= a].after

\* C10: an Allocate of a buffer that has a shape, with well-formed non-empty
\* extents, sets mem_to_shape[buf] to the unsigned 64-bit product of
\* lanes * extent[i] over all dimensions, lanes^n * product(extents) modulo
\* 2^64, and leaves the other entries; the stores visited afterwards are
\* checked against that table; an Allocate of a buffer without a shape
\* changes nothing.
C10_AllocateRedeclares ==
  pc = "done" =>
    /\ \A a \in 1..Len(checker.allocs) :
         LET ev == checker.allocs[a]
             b  == ev.op.buf
         IN /\ \A o \in BCBuffers \ {b} : ev.after[o] = ev.before[o]
            /\ ~Defined(ev.before[b]) => ev.after = ev.before
            /\ (Defined(ev.before[b]) /\ WellFormedExtents(ev.op.extents)) =>
                 \A nval \in ExtentValues :
                   Eval64(ev.after[b], nval) =
                     MulU64(PowU64(ev.op.lanes, Len(ev.op.extents)),
                            ExtentProduct(ev.op.extents, Len(ev.op.extents), nval))
    /\ \A n \in 1..Len(checker.stores) :
         LET ev == checker.stores[n]
         IN /\ ev.shapes = ShapesSeenBy(n)
            /\ (Defined(ev.shapes[ev.op.buf]) /\ ~UnsafeStore(ev.op)) =>
                 /\ ev.out.k = "IfThenElse"
                 /\ ev.collector[Len(ev.collector)].bound = ShapesSeenBy(n)[ev.op.buf]

\* C10 witness: a buffer with a shape is redeclared with two lanes and three
\* extents whose product passes 2^64, and a store to it is then wrapped
\* against the new shape, which is not the buffer_bound value
C10_Witness ==
  /\ pc = "done"
  /\ \E a \in 1..Len(checker.allocs) :
       LET ev == checker.allocs[a]
       IN /\ Defined(ev.before[ev.op.buf])
          /\ ev.op.lanes = 2
          /\ ev.op.extents = <<IntImm(MaxInt32), IntImm(MaxInt32), IntImm(4)>>
          /\ ev.after[ev.op.buf] # ev.before[ev.op.buf]
          /\ \E n \in 1..Len(checker.stores) :
               /\ checker.stores[n].op.buf = ev.op.buf
               /\ checker.stores[n].out.k = "IfThenElse"
               /\ checker.stores[n].shapes = ev.after

\* the extents Update is to skip: none at all, or one that is undefined,
\* non-scalar or a negative constant, at whatever position
Malformed(extents) ==
  \/ Len(extents) = 0
  \/ \E i \in 1..Len(extents) :
        \/ ~Defined(extents[i])
        \/ DtypeLanes(extents[i]) # 1
        \/ is_negative_const(extents[i])

\* the Allocate visits of a buffer with a declared shape and malformed extents
MalformedVisits ==
  {j \in 1..Len(checker.allocs) :
     /\ Defined(checker.allocs[j].before[checker.allocs[j].op.buf])
     /\ Malformed(checker.allocs[j].op.extents)}

\* C11: an Allocate of a buffer with a declared shape whose extents are empty,
\* or hold at any position an undefined, non-scalar or negative constant
\* extent, leaves mem_to_shape as it was, and the pass does not fail: it goes
\* on into the body and returns the statement
C11_MalformedExtentsSkipped ==
  pc \in {"done", "aborted"} =>
    \A j \in MalformedVisits :
      /\ checker.allocs[j].after = checker.allocs[j].before
      /\ checker.err = "ok"
      /\ pc = "done"

\* no undefined extent after position 0
NoUndefinedTail(extents) == \A i \in 2..Len(extents) : Defined(extents[i])

\* what holds of the malformed extents that keep the undefined ones to
\* position 0: the update is skipped and the pass goes on
C11_SkippedWithoutUndefinedTail ==
  pc \in {"done", "aborted"} =>
    \A j \in MalformedVisits :
      NoUndefinedTail(checker.allocs[j].op.extents) =>
        /\ checker.allocs[j].after = checker.allocs[j].before
        /\ pc = "done"

\* an undefined extent at position 0, and a non-scalar one later, were skipped
C11_SkipReached ==
  /\ pc = "done"
  /\ \E j \in MalformedVisits :
       /\ Len(checker.allocs[j].op.extents) = 2
       /\ ~Defined(checker.allocs[j].op.extents[1])
  /\ \E j \in MalformedVisits :
       /\ Len(checker.allocs[j].op.extents) = 2
       /\ DtypeLanes(checker.allocs[j].op.extents[2]) # 1

(***************************************************************************)
(* Claims about the virtual thread injector.                               *)
(***************************************************************************)
\* the variable occurs in an expression of the node
RECURSIVE Occurs(_, _)
Occurs(name, x) ==
  CASE x.k = "Variable" -> x.name = name
    [] x.k = "Load" -> Occurs(name, x.index) \/ Occurs(name, x.pred)
    [] x.k = "Call" -> \E j \in 1..Len(x.args) : Occurs(name, x.args[j])
    [] x.k \in BinOps -> Occurs(name, x.a) \/ Occurs(name, x.b)
    [] x.k = "Ramp" -> Occurs(name, x.base) \/ Occurs(name, x.stride)
    [] x.k = "Cast" -> Occurs(name, x.a)
    [] x.k = "Store" -> Occurs(name, x.value) \/ Occurs(name, x.index) \/ Occurs(name, x.pred)
    [] x.k \in {"LetStmt", "AttrStmt"} -> Occurs(name, x.value) \/ Occurs(name, x.body)
    [] x.k = "For" -> Occurs(name, x.min) \/ Occurs(name, x.extent) \/ Occurs(name, x.body)
    [] x.k = "IfThenElse" ->
         Occurs(name, x.cond) \/ Occurs(name, x.then_case) \/ Occurs(name, x.else_case)
    [] x.k = "Block" -> Occurs(name, x.first) \/ Occurs(name, x.rest)
    [] x.k = "Evaluate" -> Occurs(name, x.value)
    [] x.k = "Allocate" ->
         \/ \E j \in 1..Len(x.extents) : Occurs(name, x.extents[j])
         \/ Occurs(name, x.cond) \/ Occurs(name, x.body) \/ Occurs(name, x.new_expr)
    [] x.k = "AssertStmt" -> Occurs(name, x.cond) \/ Occurs(name, x.body)
    [] OTHER -> FALSE

\* the statements of a statement tree, itself included
RECURSIVE StmtsOf(_)
StmtsOf(s) ==
  CASE s.k \in {"LetStmt", "AttrStmt", "For", "Allocate", "AssertStmt"} ->
         {s} \cup StmtsOf(s.body)
    [] s.k = "IfThenElse" -> {s} \cup StmtsOf(s.then_case) \cup StmtsOf(s.else_case)
    [] s.k = "Block" -> {s} \cup StmtsOf(s.first) \cup StmtsOf(s.rest)
    [] s.k = "Undef" -> {}
    [] OTHER -> {s}

\* the loop variable of the injected serial loop
InjectedIdx == thread.var \o ".s"
IsInjectedLoop(s) == s.k = "For" /\ s.loop_var = InjectedIdx

\* C5 (as written): in the output every occurrence of the thread variable
\* lies inside exactly one injected construct, where it is replaced by the
\* loop index or by the number of the copy, so that the variable itself does
\* not occur in the output; injected loops are not nested; InjectVTLoop is
\* never entered while vt_loop_injected is set.
C5_InjectionCovers ==
  /\ pc = "done" =>
       /\ ~Occurs(thread.var, result)
       /\ \A s \in StmtsOf(result) :
            IsInjectedLoop(s) => \A u \in StmtsOf(s.body) : ~IsInjectedLoop(u)
  /\ pc = "aborted" => injector.err # "!vt_loop_injected_"

\* the two parts of C5 that hold: no nesting, no second entry
C5_NeverNested ==
  /\ pc = "done" =>
       \A s \in StmtsOf(result) :
         IsInjectedLoop(s) => \A u \in StmtsOf(s.body) : ~IsInjectedLoop(u)
  /\ pc = "aborted" => injector.err # "!vt_loop_injected_"

\* the values the thread variable takes in the output
ThreadValues ==
  {IntImm(j) : j \in 0..(thread.num_threads - 1)} \cup {Var(InjectedIdx), Var(thread.var)}

AllocatesOf(s) == {a \in StmtsOf(s) : a.k = "Allocate"}
Expanded(buf) == buf \in touched_var \/ ~thread.allow_share

\* C6: every Allocate of the output whose buffer is touched, or that lies in
\* a non-shareable region, has one extra extent, outermost and equal to
\* num_threads, before its original extents (the thread variable replaced);
\* every other Allocate keeps its extents.
C6_AllocateExpanded ==
  pc = "done" =>
    \A a \in AllocatesOf(result) :
      \E orig \in AllocatesOf(stmt) :
        /\ orig.buf = a.buf
        /\ \E v \in ThreadValues :
             a.extents = (IF Expanded(a.buf) THEN <<IntImm(thread.num_threads)>> ELSE <<>>)
                         \o [j \in 1..Len(orig.extents) |->
                               Substitute(orig.extents[j], thread.var, v)]

\* C6 witness: an Allocate that triggered the injection itself was visited
\* again inside the injected loop and came out expanded
C6_Witness ==
  /\ pc = "done"
  /\ \E j \in 1..Len(injector.injections) :
       LET inj == injector.injections[j]
       IN /\ inj.before_mutation
          /\ inj.stmt.k = "Allocate"
          /\ inj.stmt.extents[1] = IntImm(thread.num_threads)
          /\ Len(inj.stmt.extents) >= 2

\* the product of the extents and the lanes of the allocation of a buffer
RECURSIVE ExtentsProduct(_)
ExtentsProduct(extents) ==
  IF Len(extents) = 1 THEN extents[1]
  ELSE Bin("Mul", ExtentsProduct(SubSeq(extents, 1, Len(extents) - 1)), extents[Len(extents)])
StrideOf(buf) ==
  LET orig == CHOOSE a \in AllocatesOf(stmt) : a.buf = buf
  IN Bin("Mul", ExtentsProduct(orig.extents), IntImm(orig.lanes))

\* the rewrites that wrap an index: + value * stride, or stride / lanes * value +
RECURSIVE Layers(_)
Layers(index) ==
  IF index.k = "Add" /\ index.b.k = "Mul" /\ index.b.a \in ThreadValues
  THEN 1 + Layers(index.a) ELSE 0
RECURSIVE PtrLayers(_)
PtrLayers(offset) ==
  IF offset.k = "Add" /\ offset.a.k = "Mul" /\ offset.a.b \in ThreadValues
  THEN 1 + PtrLayers(offset.b) ELSE 0

\* in the output an access carries one rewrite when its buffer was expanded
\* by an enclosing Allocate, none otherwise
RECURSIVE RewrittenOnce(_, _)
RewrittenOnce(x, remapped) ==
  CASE x.k = "Load" ->
         /\ Layers(x.index) = (IF x.buf \in remapped THEN 1 ELSE 0)
         /\ RewrittenOnce(IF x.buf \in remapped THEN x.index.a ELSE x.index, remapped)
         /\ RewrittenOnce(x.pred, remapped)
    [] x.k = "Call" ->
         IF x.name = "tvm_access_ptr"
         THEN /\ PtrLayers(x.args[3]) = (IF x.args[2].name \in remapped THEN 1 ELSE 0)
              /\ RewrittenOnce(IF x.args[2].name \in remapped THEN x.args[3].b ELSE x.args[3],
                               remapped)
              /\ RewrittenOnce(x.args[4], remapped)
         ELSE \A j \in 1..Len(x.args) : RewrittenOnce(x.args[j], remapped)
    [] x.k \in BinOps -> RewrittenOnce(x.a, remapped) /\ RewrittenOnce(x.b, remapped)
    [] x.k = "Store" ->
         /\ Layers(x.index) = (IF x.buf \in remapped THEN 1 ELSE 0)
         /\ RewrittenOnce(IF x.buf \in remapped THEN x.index.a ELSE x.index, remapped)
         /\ RewrittenOnce(x.value, remapped) /\ RewrittenOnce(x.pred, remapped)
    [] x.k \in {"LetStmt", "AttrStmt"} ->
         RewrittenOnce(x.value, remapped) /\ RewrittenOnce(x.body, remapped)
    [] x.k = "For" -> RewrittenOnce(x.extent, remapped) /\ RewrittenOnce(x.body, remapped)
    [] x.k = "IfThenElse" ->
         /\ RewrittenOnce(x.cond, remapped) /\ RewrittenOnce(x.then_case, remapped)
         /\ RewrittenOnce(x.else_case, remapped)
    [] x.k = "Block" -> RewrittenOnce(x.first, remapped) /\ RewrittenOnce(x.rest, remapped)
    [] x.k = "Evaluate" -> RewrittenOnce(x.value, remapped)
    [] x.k = "Allocate" ->
         /\ \A j \in 1..Len(x.extents) : RewrittenOnce(x.extents[j], remapped)
         /\ RewrittenOnce(x.cond, remapped)
         /\ RewrittenOnce(x.body, IF Expanded(x.buf) THEN remapped \cup {x.buf} ELSE remapped)
    [] OTHER -> TRUE

\* C7: an access to a buffer recorded in alloc_remap gets the index
\* old_index + var * stride, where stride is the product of the original
\* extents of the buffer times the lanes of its allocation (the offset of a
\* tvm_access_ptr becomes (stride / lanes of the pointer) * var + old_offset);
\* an access to another buffer keeps its index; in the output every access
\* carries the rewrite exactly once.
C7_IndexRewrite ==
  pc = "done" =>
    /\ \A j \in 1..Len(injector.accesses) :
         LET r == injector.accesses[j]
         IN IF ~Defined(r.remap) THEN r.new = r.old
            ELSE /\ r.remap = StrideOf(r.buf)
                 /\ r.node.k \in {"Load", "Store"} =>
                      r.new = Bin("Add", r.old, Bin("Mul", Var(thread.var), StrideOf(r.buf)))
                 /\ r.node.k = "Call" =>
                      r.new = Bin("Add",
                                  Bin("Mul",
                                      Bin("Div", StrideOf(r.buf), IntImm(r.node.args[1].args[1].v)),
                                      Var(thread.var)),
                                  r.old)
    /\ RewrittenOnce(result, {})

\* C7 witness: a tvm_access_ptr and a Load or Store into a remapped buffer
\* of two lanes and two extents were rewritten
C7_Witness ==
  /\ pc = "done"
  /\ \E j \in 1..Len(injector.accesses) :
       LET r == injector.accesses[j]
       IN /\ Defined(r.remap) /\ r.node.k = "Call"
          /\ r.remap = Bin("Mul", Bin("Mul", IntImm(4), Var("n")), IntImm(2))
  /\ \E j \in 1..Len(injector.accesses) :
       Defined(injector.accesses[j].remap) /\ injector.accesses[j].node.k \in {"Load", "Store"}


\* a statement of the kind is in the tree, the root included
HasStmt(s, kinds) == \E u \in StmtsOf(s) : u.k \in kinds
\* a statement of the kind is strictly beneath the root
HasStmtBeneath(s, kinds) == \E u \in StmtsOf(s) \ {s} : u.k \in kinds

\* the serial form: For(var.s, 0, num_threads, body)
IsSerial(out) ==
  /\ IsInjectedLoop(out)
  /\ out.min = IntImm(0)
  /\ out.extent = IntImm(thread.num_threads)

\* C8 (as written): the unrolled form is chosen if and only if num_threads <
\* 16 and no For, IfThenElse or Block lies beneath the injection point;
\* otherwise the serial For over [0, num_threads) is emitted.
C8_NoControlFlowBeneath ==
  pc = "done" =>
    \A j \in 1..Len(injector.injections) :
      LET inj == injector.injections[j]
      IN ~IsSerial(inj.out) <=>
           /\ thread.num_threads < UnrollLimit
           /\ ~HasStmtBeneath(inj.stmt, {"For", "IfThenElse", "Block"})

\* C8: the unrolled form is chosen if and only if num_threads < 16 and the
\* statement the loop is put around holds no For, itself included; an
\* IfThenElse or a Block in it does not matter; otherwise the serial For over
\* [0, num_threads) is emitted.
C8_UnrollGate ==
  pc = "done" =>
    \A j \in 1..Len(injector.injections) :
      LET inj == injector.injections[j]
      IN /\ ~IsSerial(inj.out) <=>
              (thread.num_threads < UnrollLimit /\ ~HasStmt(inj.stmt, {"For"}))
         /\ IsSerial(inj.out) =>
              inj.out.body = Substitute(inj.stmt, thread.var, Var(InjectedIdx))
         /\ inj.out \in StmtsOf(result)

\* C8 witness: just below the limit, a statement with an IfThenElse or a
\* Block in it was unrolled
C8_Witness ==
  /\ pc = "done"
  /\ thread.num_threads = UnrollLimit - 1
  /\ \E j \in 1..Len(injector.injections) :
       LET inj == injector.injections[j]
       IN /\ ~IsSerial(inj.out)
          /\ HasStmt(inj.stmt, {"IfThenElse", "Block"})

\* the copies chained to the left, Block(Block(s0, s1), s2), and to the right
RECURSIVE LeftChain(_, _)
LeftChain(copies, n) ==
  IF n = 1 THEN copies[1] ELSE Block(LeftChain(copies, n - 1), copies[n])
RECURSIVE RightChain(_, _)
RightChain(copies, from) ==
  IF from = Len(copies) THEN copies[from] ELSE Block(copies[from], RightChain(copies, from + 1))

CopiesOf(body) ==
  [j \in 1..thread.num_threads |-> Substitute(body, thread.var, IntImm(j - 1))]

\* C9 (as written): the unrolled form is stmt[var<-0], ..., stmt[var<-n-1]
\* in ascending order, chained with right-associated Blocks.
C9_RightAssociated ==
  pc = "done" =>
    \A j \in 1..Len(injector.injections) :
      LET inj == injector.injections[j]
      IN ~IsSerial(inj.out) => inj.out = RightChain(CopiesOf(inj.stmt), 1)

\* C9: the unrolled form is stmt[var<-0], ..., stmt[var<-n-1] in ascending
\* order, each copy the same rewritten statement with only var replaced,
\* chained with left-associated Blocks, Block(Block(s0, s1), s2).
C9_LeftAssociated ==
  pc = "done" =>
    \A j \in 1..Len(injector.injections) :
      LET inj == injector.injections[j]
      IN ~IsSerial(inj.out) =>
           inj.out = LeftChain(CopiesOf(inj.stmt), thread.num_threads)

\* C9 witness: three copies or more were chained, and the copies differ
C9_Witness ==
  /\ pc = "done"
  /\ thread.num_threads >= 3
  /\ \E j \in 1..Len(injector.injections) :
       LET inj == injector.injections[j]
       IN /\ ~IsSerial(inj.out)
          /\ Occurs(thread.var, inj.stmt)
          /\ inj.out.k = "Block" /\ inj.out.first.k = "Block"


(***************************************************************************)
(* max_loop_depth_ at the siblings of a Block and of an IfThenElse.        *)
(***************************************************************************)
\* C12: the equality checks of max_loop_depth_ at the head of Block and before
\* the branches of IfThenElse never fail, whether or not the visit is the
\* re-visit of an injection with before_mutation; the second sibling (the
\* rest of a Block, the else branch) is entered with the counter at 0, and the
\* handler leaves the greater of the two siblings' counters
C12_SiblingDiscipline ==
  pc \in {"done", "aborted"} =>
    /\ injector.err # "max_loop_depth_ == 0"
    /\ \A j \in 1..Len(injector.siblings) :
         /\ injector.siblings[j].entry = 0
         /\ injector.siblings[j].after
              = Max(injector.siblings[j].first, injector.siblings[j].second)
         /\ injector.siblings[j].after >= injector.siblings[j].first
         /\ injector.siblings[j].after >= injector.siblings[j].second

\* inside the re-visit of an injection: a Block whose first statement left a
\* loop depth above 0, and an IfThenElse whose then branch did
C12_Witness ==
  /\ pc = "done"
  /\ \E j, k \in 1..Len(injector.siblings) :
       /\ injector.siblings[j].kind = "Block"
       /\ injector.siblings[j].revisit
       /\ injector.siblings[j].first > 0
       /\ injector.siblings[k].kind = "IfThenElse"
       /\ injector.siblings[k].revisit
       /\ injector.siblings[k].first > 0

(***************************************************************************)
(* visit_touched_var_ at the head of VisitStmt.                            *)
(***************************************************************************)
\* C13: visit_touched_var_ is false whenever VTInjector starts the visit of a
\* statement, before and after a loop was injected on the path: the check at
\* the head of VisitStmt never fails, every handler that visits an expression
\* and then a child statement having injected the loop or cleared the flag
C13_VisitTouchedClear ==
  pc \in {"done", "aborted"} => injector.err # "!visit_touched_var_"

\* the check fails beneath an AttrStmt whose value reads the thread variable,
\* and nowhere else
C13_FailsUnderAttrStmt ==
  pc = "aborted" =>
    /\ injector.err = "!visit_touched_var_"
    /\ \E u \in StmtsOf(stmt) : u.k = "AttrStmt" /\ Occurs(thread.var, u.value)

=============================================================================
